---- MODULE Spec2Model ----
(***************************************************************************)
(* A model of the book_reader synchronisation scripts:                     *)
(*   db_populate/03_populate_from_storage.py  (the sync run)               *)
(*   db_populate/05_find_mp3_lemgths_on_device.py (the reconciler pass)    *)
(* Strings are sequences of character codes, file headers are sequences    *)
(* of bytes, a content digest is a positive number and the empty digest    *)
(* ("" in the code) is 0.                                                  *)
(***************************************************************************)
EXTENDS Integers, Sequences, FiniteSets, TLC

VARIABLES
    local,      \* local[d][n]: the file named n of local directory d
    devDirs,    \* the book directories that exist on the device
    dev,        \* dev[dd][n]: the file named n of device directory dd
    schema,     \* which tables of the catalog exist, and their columns
    books,      \* rows of table books, in rowid order
    chapters,   \* rows of table chapters, in rowid order
    run,        \* run[p]: the invocation p (its position and its locals)
    prev,       \* what the last finished invocation was (history)
    chg,        \* what the environment changed since it finished (history)
    retIds,     \* retIds[t]: the ids store_book_in_db returned for title t (history)
    nRuns,      \* invocations started so far
    nEnv        \* environment changes so far

vars == <<local, devDirs, dev, schema, books, chapters, run, prev, chg, retIds, nRuns, nEnv>>

(* ------------------------------ bounds --------------------------------- *)
MaxRuns == 2
MaxEnv == 1
MaxSegLen == 6

(* --------------------------- program constants ------------------------- *)
DummyId == -1
EmptyDigest == 0
NoColumn == -1
DurationError == -1

(* ------------------------------ strings -------------------------------- *)
Max(S) == CHOOSE x \in S : \A y \in S : y <= x
Min(S) == CHOOSE x \in S : \A y \in S : x <= y

Tail2(s, k) == [i \in 1..(Len(s) - k) |-> s[i + k]]

\* s.endswith(suf)
EndsWith(s, suf) ==
    /\ Len(s) >= Len(suf)
    /\ \A i \in 1..Len(suf) : s[Len(s) - Len(suf) + i] = suf[i]

\* s.startswith(pre)
StartsWith(s, pre) ==
    /\ Len(s) >= Len(pre)
    /\ \A i \in 1..Len(pre) : s[i] = pre[i]

\* Python's s < t on strings: lexicographic by code point
RECURSIVE StrLess(_, _)
StrLess(s, t) ==
    IF Len(t) = 0 THEN FALSE
    ELSE IF Len(s) = 0 THEN TRUE
    ELSE IF s[1] # t[1] THEN s[1] < t[1]
    ELSE StrLess(Tail(s), Tail(t))

\* a faulty variant of SortStrings: the names come in descending order
RECURSIVE SortStringsDescending(_)
SortStringsDescending(S) ==
    IF S = {} THEN <<>>
    ELSE LET m == CHOOSE x \in S : \A y \in S \ {x} : StrLess(y, x)
         IN <<m>> \o SortStringsDescending(S \ {m})

\* list.sort() of a collection of distinct strings
RECURSIVE SortStrings(_)
SortStrings(S) ==
    IF S = {} THEN <<>>
    ELSE LET m == CHOOSE x \in S : \A y \in S \ {x} : StrLess(x, y)
         IN <<m>> \o SortStrings(S \ {m})

\* s.split(sep) for a one-character separator
RECURSIVE Split(_, _)
Split(s, sep) ==
    IF \A i \in 1..Len(s) : s[i] # sep THEN <<s>>
    ELSE LET k == Min({i \in 1..Len(s) : s[i] = sep})
         IN <<SubSeq(s, 1, k - 1)>> \o Split(Tail2(s, k), sep)

UpperChar(c) == IF c >= 97 /\ c <= 122 THEN c - 32 ELSE c
LowerChar(c) == IF c >= 65 /\ c <= 90 THEN c + 32 ELSE c

\* a faulty variant of Capitalize: the letters after the first keep their case
CapitalizeFirstOnly(w) ==
    [i \in 1..Len(w) |-> IF i = 1 THEN UpperChar(w[i]) ELSE w[i]]

\* word.capitalize()
Capitalize(w) ==
    [i \in 1..Len(w) |-> IF i = 1 THEN UpperChar(w[i]) ELSE LowerChar(w[i])]

\* ' '.join(words)
RECURSIVE JoinSpace(_)
JoinSpace(ws) ==
    IF Len(ws) = 0 THEN <<>>
    ELSE IF Len(ws) = 1 THEN ws[1]
    ELSE ws[1] \o <<32>> \o JoinSpace(Tail(ws))

capitalize_words(text) ==
    LET ws == Split(text, 45)
    IN JoinSpace([i \in 1..Len(ws) |-> Capitalize(ws[i])])

\* parse_directory_name on the last path segment: ok = FALSE is the ValueError
parse_directory_name(seg) ==
    LET parts == Split(seg, 95)
    IN IF Len(parts) # 2
       THEN [ok |-> FALSE, title |-> <<>>, author |-> <<>>]
       ELSE [ok |-> TRUE, title |-> capitalize_words(parts[1]),
             author |-> capitalize_words(parts[2])]

\* book_title.replace(' ', '')
BookDirName(title) == SelectSeq(title, LAMBDA c : c # 32)

(* --------------------------- the device paths -------------------------- *)
\* "/sdcard/Audiobooks/BookReader/audio", as create_device_directory spells it
\* and as settings.py does
SyncAudioPath ==
    <<47, 115, 100, 99, 97, 114, 100, 47, 65, 117, 100, 105, 111, 98, 111, 111, 107, 115, 47,
     66, 111, 111, 107, 82, 101, 97, 100, 101, 114,
     47, 97, 117, 100, 105, 111>>
DEVICE_BASE_AUDIO_PATH ==
    <<47, 115, 100, 99, 97, 114, 100, 47, 65, 117, 100, 105, 111, 98, 111, 111, 107, 115, 47,
     66, 111, 111, 107, 82, 101, 97, 100, 101, 114,
     47, 97, 117, 100, 105, 111>>

\* os.path.join(a, b) on a POSIX host
PathJoin(a, b) ==
    IF Len(b) > 0 /\ b[1] = 47 THEN b
    ELSE IF Len(a) = 0 \/ a[Len(a)] = 47 THEN a \o b
    ELSE a \o <<47>> \o b

\* path.replace('\\', '/')
ForwardSlashes(path) == [i \in 1..Len(path) |-> IF path[i] = 92 THEN 47 ELSE path[i]]

\* the path create_device_directory(device_name, book_title, dry_run) returns
create_device_directory(title) == SyncAudioPath \o <<47>> \o BookDirName(title)

\* main, line 445: device_file_path = os.path.join(device_book_dir, mp3_file)
SyncDevicePath(deviceDir, fileName) == PathJoin(deviceDir, fileName)

\* process_chapter, lines 86-94: the path a chapter's file is pulled from
RecDevicePath(title, fileName) ==
    ForwardSlashes(PathJoin(PathJoin(DEVICE_BASE_AUDIO_PATH, BookDirName(title)), fileName))

(* ------------------------------ the files ------------------------------ *)
\* ".mp3"
Mp3Suffix == <<46, 109, 112, 51>>
\* b'ID3'
ID3 == <<73, 68, 51>>

NoFile == [present |-> FALSE, readable |-> FALSE, hdr |-> <<>>, digest |-> 0, dur |-> 0]

\* a faulty variant of HeaderIsMp3: the second byte of a frame sync is not looked at
HeaderIsMp3FirstByte(hdr) ==
    \/ StartsWith(hdr, ID3)
    \/ /\ Len(hdr) >= 2
       /\ hdr[1] = 255

\* the header test of validate_mp3_files: f.read(3) starts with ID3, or the
\* first two bytes are a frame sync (0xFF, top three bits of the second set)
HeaderIsMp3(hdr) ==
    \/ StartsWith(hdr, ID3)
    \/ /\ Len(hdr) >= 2
       /\ hdr[1] = 255
       /\ (hdr[2] \div 32) = 7

\* one directory entry passes validate_mp3_files
EntryIsValid(name, f) ==
    /\ f.present
    /\ EndsWith(name, Mp3Suffix)
    /\ f.readable
    /\ HeaderIsMp3(f.hdr)

\* validate_mp3_files(directory): the accepted names, sorted
validate_mp3_files(listing) ==
    SortStrings({n \in DOMAIN listing : EntryIsValid(n, listing[n])})

(* ----------------------------- the catalog ----------------------------- *)
\* table_exists(db, 'books') / table_exists(db, 'chapters')
table_exists(sch, name) ==
    IF name = "books" THEN sch.books ELSE sch.chapters # "none"

\* db.create_tables([Book, Chapter], safe=True): CREATE TABLE IF NOT EXISTS of
\* the two models of the sync script; its Chapter has no finishedPlaying ("v1")
create_tables(sch) ==
    [books |-> TRUE, chapters |-> IF sch.chapters = "none" THEN "v1" ELSE sch.chapters]

\* a faulty variant of Bootstrap: the tables are dropped and created anew
BootstrapRecreating(sch) ==
    [books |-> TRUE, chapters |-> "v1"]

\* the schema bootstrap of main (check-then-create)
Bootstrap(sch) ==
    IF ~table_exists(sch, "books") \/ ~table_exists(sch, "chapters")
    THEN create_tables(sch)
    ELSE sch

\* AutoField: an INTEGER PRIMARY KEY, the largest rowid plus one
NextId(rows) ==
    IF Len(rows) = 0 THEN 1 ELSE Max({rows[i].id : i \in 1..Len(rows)}) + 1

\* a faulty variant of BookSelect: the where clause is forgotten
BookSelectAnyRow(bks, title) ==
    IF Len(bks) = 0 THEN 0 ELSE 1

\* Book.select().where(title == t).get(): the index of the first row, 0 if none
BookSelect(bks, title) ==
    LET m == {i \in 1..Len(bks) : bks[i].title = title}
    IN IF m = {} THEN 0 ELSE Min(m)

\* a faulty variant of BookInsertAllowed: the title column is not declared unique
BookInsertAlways(bks, title) == TRUE

\* Book.title is CharField(unique=True): the store rejects a second row of a title
BookInsertAllowed(bks, title) ==
    \A i \in 1..Len(bks) : bks[i].title # title

\* Book.create(title, author): ok = FALSE is the IntegrityError
BookCreate(bks, title, author) ==
    IF BookInsertAllowed(bks, title)
    THEN [ok |-> TRUE, id |-> NextId(bks),
          books |-> Append(bks, [id |-> NextId(bks), title |-> title, author |-> author])]
    ELSE [ok |-> FALSE, id |-> DummyId, books |-> bks]

\* a faulty variant of BookGetOrCreate: an existing row takes the supplied author
BookGetOrCreateRefreshing(bks, title, author) ==
    LET g == BookSelect(bks, title)
        c == BookCreate(bks, title, author)
    IN IF g # 0
       THEN [books |-> [bks EXCEPT ![g].author = author], id |-> bks[g].id,
             created |-> FALSE, raised |-> FALSE]
       ELSE [books |-> c.books, id |-> c.id, created |-> c.ok, raised |-> ~c.ok]

\* Book.get_or_create(title=title, defaults={'author': author})
BookGetOrCreate(bks, title, author) ==
    LET g == BookSelect(bks, title)
    IN IF g # 0
       THEN [books |-> bks, id |-> bks[g].id, created |-> FALSE, raised |-> FALSE]
       ELSE LET c == BookCreate(bks, title, author)
                g2 == BookSelect(bks, title)
            IN IF c.ok
               THEN [books |-> c.books, id |-> c.id, created |-> TRUE, raised |-> FALSE]
               ELSE IF g2 # 0
               THEN [books |-> bks, id |-> bks[g2].id, created |-> FALSE, raised |-> FALSE]
               ELSE [books |-> bks, id |-> DummyId, created |-> FALSE, raised |-> TRUE]

\* store_book_in_db(db, title, author, dry_run)
store_book_in_db(bks, title, author, dry) ==
    IF dry
    THEN [books |-> bks, id |-> DummyId, created |-> FALSE, raised |-> FALSE]
    ELSE BookGetOrCreate(bks, title, author)

\* Chapter declares no index over (book, fileName), neither in the sync script
\* nor in models.py: the store accepts a row whatever rows there are
ChapterInsertAllowed(chs, bookId, fileName) == TRUE

\* Chapter.select().where(book == b, fileName == n).get()
ChapterSelect(chs, bookId, fileName) ==
    LET m == {i \in 1..Len(chs) : chs[i].book = bookId /\ chs[i].fileName = fileName}
    IN IF m = {} THEN 0 ELSE Min(m)

\* a faulty variant of NewChapterRow: the row is stored before its playTime is set
NewChapterRowPartial(chs, sch, bookId, title, fileName, playTime) ==
    [id |-> NextId(chs), book |-> bookId, title |-> title, fileName |-> fileName,
     playTime |-> 0, lastPlayedPosition |-> 0, lastPlayedTimestamp |-> 0,
     finishedPlaying |-> IF sch.chapters = "v2" THEN 0 ELSE NoColumn]

\* the row Chapter.create writes: the supplied fields and the defaults of
\* get_or_create; finishedPlaying is no field of the sync script's Chapter, so it
\* is the column's default where the table has the column and absent otherwise
NewChapterRow(chs, sch, bookId, title, fileName, playTime) ==
    [id |-> NextId(chs), book |-> bookId, title |-> title, fileName |-> fileName,
     playTime |-> playTime, lastPlayedPosition |-> 0, lastPlayedTimestamp |-> 0,
     finishedPlaying |-> IF sch.chapters = "v2" THEN 0 ELSE NoColumn]

\* a faulty variant of ChapterSetPlayTime: the new playTime is not saved
ChapterKeepPlayTime(row, playTime) == row

\* a faulty variant of ChapterSetPlayTime: the row is written again from the defaults
ChapterRewriteRow(row, playTime) ==
    [row EXCEPT !.playTime = playTime, !.lastPlayedPosition = 0, !.lastPlayedTimestamp = 0]

\* the update branch of store_chapter_in_db: chapter.playTime = play_time; save()
ChapterSetPlayTime(row, playTime) ==
    [row EXCEPT !.playTime = playTime]

\* a faulty variant of store_chapter_in_db: playTime is among the lookup keys of
\* get_or_create instead of its defaults
store_chapter_keyed_by_playTime(chs, sch, bookId, title, fileName, playTime, dry) ==
    LET m == {i \in 1..Len(chs) : /\ chs[i].book = bookId
                                   /\ chs[i].fileName = fileName
                                   /\ chs[i].playTime = playTime}
    IN IF dry
       THEN [chapters |-> chs, created |-> FALSE, wrote |-> FALSE, idx |-> 0]
       ELSE IF m = {}
       THEN [chapters |-> Append(chs, NewChapterRow(chs, sch, bookId, title, fileName, playTime)),
             created |-> TRUE, wrote |-> TRUE, idx |-> Len(chs) + 1]
       ELSE [chapters |-> chs, created |-> FALSE, wrote |-> FALSE, idx |-> Min(m)]

\* store_chapter_in_db(db, book, title, file_name, play_time, dry_run)
store_chapter_in_db(chs, sch, bookId, title, fileName, playTime, dry) ==
    LET g == ChapterSelect(chs, bookId, fileName)
    IN IF dry
       THEN [chapters |-> chs, created |-> FALSE, wrote |-> FALSE, idx |-> 0]
       ELSE IF g = 0
       THEN [chapters |-> Append(chs, NewChapterRow(chs, sch, bookId, title, fileName, playTime)),
             created |-> TRUE, wrote |-> TRUE, idx |-> Len(chs) + 1]
       ELSE IF chs[g].playTime # playTime
       THEN [chapters |-> [chs EXCEPT ![g] = ChapterSetPlayTime(chs[g], playTime)],
             created |-> FALSE, wrote |-> TRUE, idx |-> g]
       ELSE [chapters |-> chs, created |-> FALSE, wrote |-> FALSE, idx |-> g]

\* os.path.splitext(mp3_file)[0] for a name with one dot
ChapterTitle(name) ==
    LET dots == {i \in 1..Len(name) : name[i] = 46}
    IN IF dots = {} \/ Max(dots) = 1 THEN name ELSE SubSeq(name, 1, Max(dots) - 1)

(* --------------------------- the transfer decision --------------------- *)
\* faulty variants of CopySkips: the comparison is inverted; the comparison is left out
CopySkipsOnMismatch(localMd5, deviceMd5) ==
    /\ localMd5 # EmptyDigest
    /\ deviceMd5 # EmptyDigest
    /\ localMd5 # deviceMd5

CopySkipsWhenPresent(localMd5, deviceMd5) ==
    /\ localMd5 # EmptyDigest
    /\ deviceMd5 # EmptyDigest

\* copy_file_to_device skips the push: both digests non-empty and equal
CopySkips(localMd5, deviceMd5) ==
    /\ localMd5 # EmptyDigest
    /\ deviceMd5 # EmptyDigest
    /\ localMd5 = deviceMd5

\* a faulty variant of CopyQueriesDevice: the device is asked before the local digest
\* is looked at
CopyQueriesAlways(localMd5) == TRUE

\* copy_file_to_device queries the device digest only with a local digest
CopyQueriesDevice(localMd5) == localMd5 # EmptyDigest

\* calculate_md5(local_path): "" on any I/O error
calculate_md5(f, ioError) ==
    IF ioError \/ ~f.present THEN EmptyDigest ELSE f.digest

\* get_device_md5(device, path): "" when md5sum fails or prints nothing
get_device_md5(f, cmdFails) ==
    IF cmdFails \/ ~f.present THEN EmptyDigest ELSE f.digest

\* get_mp3_duration_in_ms(path): DurationError is a raised exception
get_mp3_duration_in_ms(f) ==
    IF ~f.present THEN DurationError ELSE f.dur

(* ------------------------- the modelled world -------------------------- *)
Procs == {1, 2}
\* the sequential specification runs every invocation as process 1
SeqProcs == {1}

\* the local book directories (last path segment): "a_x", "a_y", "b_x", "ab",
\* and "c_x", which holds no entry that is a valid audio file
DirAX == <<97, 95, 120>>
DirAY == <<97, 95, 121>>
DirBX == <<98, 95, 120>>
DirBad == <<97, 98>>
DirCX == <<99, 95, 120>>
Dirs == {DirAX, DirAY, DirBX, DirBad, DirCX}
\* the directories whose files the environment edits between runs
EditDirs == {DirAX}

\* directory entries: "0.mp3", "1.mp3", "2.mp3", "n.txt", "1.MP3"
N0 == <<48>> \o Mp3Suffix
N1 == <<49>> \o Mp3Suffix
N2 == <<50>> \o Mp3Suffix
NT == <<110, 46, 116, 120, 116>>
NU == <<49, 46, 77, 80, 51>>
Names == {N0, N1, N2, NT, NU}
EditNames == {N1, N2}

FrameSync == <<255, 251>>
TextBytes == <<104, 105, 33>>

AudioFile(hdr, digest, dur) ==
    [present |-> TRUE, readable |-> TRUE, hdr |-> hdr, digest |-> digest, dur |-> dur]

\* what a damaged card leaves of a file: bytes that decode to nothing
DamagedFile == AudioFile(<<>>, 9, DurationError)

\* a file cut short behind its header: it decodes, to a length of 0 ms
CutFile == AudioFile(ID3, 9, 0)

Durations == {100, 200}
Positions == {94, 95}

Titles == {parse_directory_name(d).title : d \in {e \in Dirs : parse_directory_name(e).ok}}
DevDirNames == {BookDirName(t) : t \in Titles}

InitLocal ==
    [d \in Dirs |->
        [n \in Names |->
            IF n = NT THEN AudioFile(TextBytes, 7, DurationError)
            ELSE IF n = NU THEN AudioFile(ID3, 6, 100)
            ELSE IF n = N0 THEN AudioFile(TextBytes, 8, DurationError)
            ELSE IF d = DirAX THEN (IF n = N1 THEN AudioFile(ID3, 1, 100)
                                    ELSE AudioFile(FrameSync, 2, 200))
            ELSE IF d = DirAY /\ n = N1 THEN AudioFile(ID3, 3, 200)
            ELSE IF d = DirBX /\ n = N1 THEN AudioFile(FrameSync, 1, 100)
            ELSE NoFile]]

EmptyDev == [dd \in DevDirNames |-> [n \in Names |-> NoFile]]

NoCopy == [local |-> 0, device |-> 0, queried |-> FALSE, act |-> "none"]
\* what the last store_chapter_in_db of an invocation did (history)
NoUp == [called |-> FALSE, existed |-> FALSE, created |-> FALSE, wrote |-> FALSE,
         supplied |-> 0, title |-> <<>>, fileName |-> <<>>, book |-> 0, idx |-> 0,
         before |-> <<>>, after |-> <<>>]
\* what the last process_chapter of a reconciler pass did; tmpLeft: a temporary
\* file of the pass still exists (history)
NoRec == [called |-> FALSE, id |-> 0, pos |-> 0, path |-> "none", duration |-> 0,
          wrote |-> FALSE, tmpLeft |-> FALSE, before |-> <<>>, devicePath |-> <<>>]

\* what an invocation found when it started (history)
AllMet == [dir |-> TRUE, device |-> TRUE, db |-> TRUE]

\* one entry of the record of what an invocation did, in order (history)
Event(ev, n) == [ev |-> ev, name |-> n]

NoPrev == [kind |-> "none", dir |-> <<>>, dry |-> FALSE, outcome |-> "none"]

Snapshot ==
    [schema |-> schema, books |-> books, chapters |-> chapters, dev |-> dev,
     devDirs |-> devDirs]

IdleRun ==
    [kind |-> "none", pc |-> "idle", dir |-> <<>>, dry |-> FALSE, title |-> <<>>,
     author |-> <<>>, files |-> <<>>, i |-> 0, bookId |-> DummyId, playTime |-> 0,
     booked |-> FALSE, conflict |-> FALSE,
     outcome |-> "none", exit |-> 0, pushed |-> {}, planned |-> 0, md5fail |-> FALSE,
     copy |-> NoCopy, up |-> NoUp, recList |-> <<>>, log |-> <<>>,
     rec |-> NoRec, attempted |-> <<>>, pre |-> AllMet, deviceDir |-> <<>>,
     snap |-> [schema |-> [books |-> FALSE, chapters |-> "none"], books |-> <<>>,
               chapters |-> <<>>, dev |-> EmptyDev, devDirs |-> {}],
     prev |-> NoPrev, chg |-> <<>>]

\* the catalogs a first invocation can meet: a database file without tables, one
\* whose tables the player created (with finishedPlaying), and the latter after
\* an earlier sync of "a_x" and some listening
EmptyCatalog ==
    [schema |-> [books |-> FALSE, chapters |-> "none"], books |-> <<>>, chapters |-> <<>>,
     devDirs |-> {}, dev |-> EmptyDev]

PlayerCatalog ==
    [EmptyCatalog EXCEPT !.schema = [books |-> TRUE, chapters |-> "v2"]]

UsedCatalog ==
    LET t == parse_directory_name(DirAX)
        dd == BookDirName(t.title)
    IN [schema |-> [books |-> TRUE, chapters |-> "v2"],
        books |-> <<[id |-> 1, title |-> t.title, author |-> t.author]>>,
        chapters |-> <<[id |-> 1, book |-> 1, title |-> ChapterTitle(N1), fileName |-> N1,
                        playTime |-> InitLocal[DirAX][N1].dur, lastPlayedPosition |-> 95,
                        lastPlayedTimestamp |-> 1, finishedPlaying |-> 0],
                       [id |-> 2, book |-> 1, title |-> ChapterTitle(N2), fileName |-> N2,
                        playTime |-> InitLocal[DirAX][N2].dur, lastPlayedPosition |-> 0,
                        lastPlayedTimestamp |-> 0, finishedPlaying |-> 0]>>,
        devDirs |-> {dd},
        dev |-> [EmptyDev EXCEPT ![dd][N1] = InitLocal[DirAX][N1],
                                 ![dd][N2] = InitLocal[DirAX][N2]]]

Init ==
    /\ local = InitLocal
    /\ \E c \in {EmptyCatalog, PlayerCatalog, UsedCatalog} :
        /\ schema = c.schema
        /\ books = c.books
        /\ chapters = c.chapters
        /\ devDirs = c.devDirs
        /\ dev = c.dev
        /\ retIds = [t \in Titles |-> {c.books[i].id : i \in {j \in 1..Len(c.books) : c.books[j].title = t}}]
    /\ run = [p \in Procs |-> IdleRun]
    /\ prev = NoPrev
    /\ chg = <<>>
    /\ nRuns = 0
    /\ nEnv = 0

Resting(p) == run[p].pc \in {"idle", "done"}
AllResting == \A p \in Procs : Resting(p)

Finish(r, outcome, code) ==
    [r EXCEPT !.pc = "done", !.outcome = outcome, !.exit = code]

\* the invocation p moves to r; a finished invocation becomes the last one
Commit(p, r) ==
    /\ run' = [run EXCEPT ![p] = r]
    /\ prev' = IF r.pc # "done" THEN prev
               ELSE IF r.outcome = "ok"
               THEN [kind |-> r.kind, dir |-> r.dir, dry |-> r.dry, outcome |-> r.outcome]
               ELSE NoPrev
    /\ chg' = IF r.pc = "done" THEN <<>> ELSE chg

(* ----------------------------- the sync run ---------------------------- *)
\* main, lines 388-436: the precondition checks, identity parsing, validation,
\* create_device_directory and the schema bootstrap, up to store_book_in_db
\* a faulty variant of StartFailure: the device is not looked for
StartFailureIgnoringDevice(dirExists, devOk, dbOk, idOk, files, dry, mkdirOk) ==
    IF ~dirExists THEN "nodir"
    ELSE IF ~dbOk THEN "baddb"
    ELSE IF ~idOk THEN "error"
    ELSE IF files = <<>> THEN "nofiles"
    ELSE IF ~dry /\ ~mkdirOk THEN "mkdirfail"
    ELSE "none"

\* main, lines 391-422: what stops the run before the schema bootstrap, in the
\* order of the checks ("none": nothing does)
StartFailure(dirExists, devOk, dbOk, idOk, files, dry, mkdirOk) ==
    IF ~dirExists THEN "nodir"
    ELSE IF ~devOk THEN "nodevice"
    ELSE IF ~dbOk THEN "baddb"
    ELSE IF ~idOk THEN "error"
    ELSE IF files = <<>> THEN "nofiles"
    ELSE IF ~dry /\ ~mkdirOk THEN "mkdirfail"
    ELSE "none"

SyncBegin(p, d, dry, dirExists, devOk, dbOk, mkdirOk) ==
    LET r0 == [IdleRun EXCEPT !.kind = "sync", !.dir = d, !.dry = dry,
                              !.snap = Snapshot, !.prev = prev, !.chg = chg,
                              !.pre = [dir |-> dirExists, device |-> devOk, db |-> dbOk]]
        id == parse_directory_name(d)
        files == IF dirExists /\ id.ok THEN validate_mp3_files(local[d]) ELSE <<>>
        bad == StartFailure(dirExists, devOk, dbOk, id.ok, files, dry, mkdirOk)
    IN /\ nRuns < MaxRuns
       /\ nRuns' = nRuns + 1
       /\ IF bad # "none"
          THEN /\ Commit(p, Finish(r0, bad, IF bad = "error" THEN 0 ELSE 1))
               /\ UNCHANGED <<devDirs, schema>>
          ELSE /\ Commit(p, [r0 EXCEPT !.pc = "book", !.title = id.title,
                                       !.author = id.author, !.files = files,
                                       !.deviceDir = create_device_directory(id.title)])
               /\ devDirs' = IF dry THEN devDirs ELSE devDirs \cup {BookDirName(id.title)}
               /\ schema' = Bootstrap(schema)
       /\ UNCHANGED <<local, dev, books, chapters, retIds, nEnv>>

\* what a start finds: <<directory exists, device reachable, catalog file valid,
\* mkdir succeeds>>; of several failures the first one checked decides
StartCases ==
    {<<TRUE, TRUE, TRUE, TRUE>>, <<FALSE, TRUE, TRUE, TRUE>>, <<TRUE, FALSE, TRUE, TRUE>>,
     <<TRUE, TRUE, FALSE, TRUE>>, <<TRUE, TRUE, TRUE, FALSE>>}

\* a sync run starts when no other invocation is under way
SyncStart(p) ==
    /\ AllResting
    /\ \E d \in Dirs, dry \in BOOLEAN, e \in StartCases :
            SyncBegin(p, d, dry, e[1], e[2], e[3], e[4])

\* what main does with the result of store_book_in_db (lines 439-440)
AfterStoreBook(p, r) ==
    IF r.raised
    THEN /\ Commit(p, Finish(run[p], "error", 0))
         /\ UNCHANGED <<books, retIds>>
    ELSE /\ Commit(p, [run[p] EXCEPT !.pc = "file", !.i = 1, !.bookId = r.id,
                                      !.booked = TRUE])
         /\ books' = r.books
         /\ retIds' = IF run[p].dry THEN retIds
                      ELSE [retIds EXCEPT ![run[p].title] = @ \cup {r.id}]

\* main, lines 438-440: store_book_in_db as one transaction
StoreBook(p) ==
    /\ run[p].pc = "book"
    /\ AfterStoreBook(p, store_book_in_db(books, run[p].title, run[p].author, run[p].dry))
    /\ UNCHANGED <<local, devDirs, dev, schema, chapters, nRuns, nEnv>>

\* a faulty variant of AfterPushFailure: the failure is printed and the loop goes on
AfterPushFailureGoesOn(r) == [r EXCEPT !.pc = "chap"]

\* copy_file_to_device, lines 372-374: a failed push ends the process, exit(1)
AfterPushFailure(r) == Finish(r, "pushfail", 1)

\* a faulty variant of AfterCopy: a skipped file is not upserted
AfterCopyUpsertsPushed(r, act) ==
    IF act # "skip" THEN [r EXCEPT !.pc = "chap"]
    ELSE IF r.i = Len(r.files) THEN Finish([r EXCEPT !.i = @ + 1], "ok", 0)
    ELSE [r EXCEPT !.i = @ + 1]

\* main, lines 450-451: store_chapter_in_db follows every copy_file_to_device
\* that returns, whatever it did
AfterCopy(r, act) == [r EXCEPT !.pc = "chap"]

\* main, lines 443-450 for the file at position i: its duration, then
\* copy_file_to_device (the digest comparison and the push)
FileTransferStep(p, ioError, cmdFails, pushOk) ==
    LET r == run[p]
        n == r.files[r.i]
        f == local[r.dir][n]
        dd == BookDirName(r.title)
        dur == get_mp3_duration_in_ms(f)
        l == calculate_md5(f, ioError)
        q == CopyQueriesDevice(l)
        m == IF q THEN get_device_md5(dev[dd][n], cmdFails) ELSE EmptyDigest
        skip == q /\ CopySkips(l, m)
        failed == (l = EmptyDigest) \/ (q /\ cmdFails)
    IN /\ r.pc = "file"
       /\ IF dur = DurationError
          THEN /\ Commit(p, Finish(r, "error", 0))
               /\ UNCHANGED dev
          ELSE IF r.dry
          THEN /\ Commit(p, AfterCopy([r EXCEPT !.playTime = dur,
                                                !.planned = @ + 1,
                                                !.log = Append(@, Event("plan", n)),
                                                !.copy = [NoCopy EXCEPT !.act = "dry"]],
                                      "dry"))
               /\ UNCHANGED dev
          ELSE IF skip
          THEN /\ Commit(p, AfterCopy([r EXCEPT !.playTime = dur,
                                                !.md5fail = @ \/ failed,
                                                !.log = Append(@, Event("skip", n)),
                                                !.copy = [local |-> l, device |-> m,
                                                          queried |-> q, act |-> "skip"]],
                                      "skip"))
               /\ UNCHANGED dev
          ELSE IF pushOk
          THEN /\ Commit(p, AfterCopy([r EXCEPT !.playTime = dur,
                                                !.md5fail = @ \/ failed,
                                                !.pushed = @ \cup {n},
                                                !.log = Append(@, Event("push", n)),
                                                !.copy = [local |-> l, device |-> m,
                                                          queried |-> q, act |-> "push"]],
                                      "push"))
               /\ dev' = [dev EXCEPT ![dd][n] = f]
          ELSE /\ Commit(p, AfterPushFailure([r EXCEPT !.playTime = dur,
                                                       !.md5fail = @ \/ failed,
                                                       !.pushed = @ \cup {n},
                                                       !.log = Append(@, Event("pushfail", n)),
                                                       !.copy = [local |-> l, device |-> m,
                                                                 queried |-> q,
                                                                 act |-> "push"]]))
               /\ UNCHANGED dev
       /\ UNCHANGED <<local, devDirs, schema, books, chapters, retIds, nRuns, nEnv>>

\* what one transfer meets: <<local read fails, md5sum on the device fails,
\* push succeeds>>; the device is asked only after a local digest was computed
TransferCases ==
    {<<io, cmd, ok>> : io \in BOOLEAN, cmd \in BOOLEAN, ok \in BOOLEAN}
        \ {<<TRUE, TRUE, ok>> : ok \in BOOLEAN}

FileTransfer(p) ==
    \E c \in TransferCases : FileTransferStep(p, c[1], c[2], c[3])

\* main, line 451: store_chapter_in_db for the file at position i, then the
\* next file, or the end of the loop (lines 453-469)
ChapterUpsert(p) ==
    LET r == run[p]
        n == r.files[r.i]
        u == store_chapter_in_db(chapters, schema, r.bookId, ChapterTitle(n), n,
                                 r.playTime, r.dry)
        g == ChapterSelect(chapters, r.bookId, n)
        up == [called |-> TRUE, existed |-> ~r.dry /\ g # 0, created |-> u.created,
               wrote |-> u.wrote, supplied |-> r.playTime, title |-> ChapterTitle(n),
               fileName |-> n, book |-> r.bookId, idx |-> u.idx,
               before |-> chapters, after |-> u.chapters]
        r1 == [r EXCEPT !.up = up, !.i = @ + 1, !.pc = "file",
                        !.log = Append(@, Event("upsert", n))]
    IN /\ r.pc = "chap"
       /\ chapters' = u.chapters
       /\ Commit(p, IF r.i = Len(r.files) THEN Finish(r1, "ok", 0) ELSE r1)
       /\ UNCHANGED <<local, devDirs, dev, schema, books, retIds, nRuns, nEnv>>

(* -------------------------- the reconciler pass ------------------------ *)
\* a faulty variant of FinishedFlag: the threshold itself does not count
FinishedFlagStrict(pos, duration) ==
    IF pos > 0 /\ duration > 0 /\ 100 * pos > 95 * duration THEN 1 ELSE 0

\* process_chapter, lines 118-122: position >= 0.95 * duration, both positive
\* (on integers the float comparison p >= d * 0.95 is 100 * p >= 95 * d)
FinishedFlag(pos, duration) ==
    IF pos > 0 /\ duration > 0 /\ 100 * pos >= 95 * duration THEN 1 ELSE 0

\* Chapter.select().join(Book): the chapters whose book exists, in rowid order
ChaptersJoinBooks(chs, bks) ==
    SelectSeq(chs, LAMBDA c : \E i \in 1..Len(bks) : bks[i].id = c.book)

\* the query names every column of models.Chapter: it fails on a catalog
\* without the tables or without the finishedPlaying column
SelectChaptersFails(sch) ==
    ~sch.books \/ sch.chapters # "v2"

\* a faulty variant of ChapterUpdateMeasured: only playTime is written
ChapterUpdatePlayTimeOnly(chs, row, duration) ==
    [i \in 1..Len(chs) |->
        IF chs[i].id = row.id THEN [chs[i] EXCEPT !.playTime = duration] ELSE chs[i]]

\* a faulty variant of ChapterUpdateMeasured: a chapter found finished is rewound
ChapterUpdateRewinding(chs, row, duration) ==
    [i \in 1..Len(chs) |->
        IF chs[i].id = row.id
        THEN [chs[i] EXCEPT !.playTime = duration,
                            !.finishedPlaying = FinishedFlag(row.lastPlayedPosition, duration),
                            !.lastPlayedPosition =
                                IF FinishedFlag(row.lastPlayedPosition, duration) = 1
                                THEN 0 ELSE @]
        ELSE chs[i]]

\* Chapter.update(playTime, finishedPlaying).where(id == chapter.id)
ChapterUpdateMeasured(chs, row, duration) ==
    [i \in 1..Len(chs) |->
        IF chs[i].id = row.id
        THEN [chs[i] EXCEPT !.playTime = duration,
                            !.finishedPlaying = FinishedFlag(row.lastPlayedPosition, duration)]
        ELSE chs[i]]

BookTitleOf(bks, bookId) ==
    bks[Min({i \in 1..Len(bks) : bks[i].id = bookId})].title

\* how adb pull can end: the file arrives, adb reports an error, or the 30 s
\* timeout expires
PullCases == {"ok", "fail", "timeout"}

\* a faulty variant of TempFileLeft: the temporary file is removed after a
\* successful measurement only
TempFileLeftOnError(path, exists) == exists /\ path # "ok"

\* _pull_and_get_duration_in_ms, lines 70-74: the finally clause removes the
\* temporary file if it exists; TRUE when a file is left behind
TempFileLeft(path, exists) == FALSE

\* _pull_and_get_duration_in_ms(device_path): mkstemp, adb pull, the duration of
\* the pulled copy, and the clean-up; every exception becomes an error result
pull_and_get_duration_in_ms(f, pull) ==
    LET d == get_mp3_duration_in_ms(f)
        path == IF pull = "timeout" THEN "timeout"
                ELSE IF pull = "fail" \/ ~f.present THEN "pullfail"
                ELSE IF d = DurationError THEN "decode"
                ELSE "ok"
    IN [duration |-> IF path = "ok" THEN d ELSE DurationError,
        error |-> path # "ok",
        path |-> path,
        tmpLeft |-> TempFileLeft(path, TRUE)]

\* a faulty variant of process_chapter: --dry-run is not looked at
process_chapter_ignoring_dry(chs, row, dry, pulled) ==
    IF pulled.error
    THEN [chapters |-> chs, wrote |-> FALSE, path |-> pulled.path, duration |-> 0,
          tmpLeft |-> pulled.tmpLeft]
    ELSE [chapters |-> ChapterUpdateMeasured(chs, row, pulled.duration), wrote |-> TRUE,
          path |-> "ok", duration |-> pulled.duration, tmpLeft |-> pulled.tmpLeft]

\* a faulty variant of process_chapter: the row of a file that cannot be
\* measured is deleted
process_chapter_pruning(chs, row, dry, pulled) ==
    IF dry THEN [chapters |-> chs, wrote |-> FALSE, path |-> "dry", duration |-> 0,
                 tmpLeft |-> FALSE]
    ELSE IF pulled.error
    THEN [chapters |-> SelectSeq(chs, LAMBDA c : c.id # row.id), wrote |-> TRUE,
          path |-> pulled.path, duration |-> 0, tmpLeft |-> pulled.tmpLeft]
    ELSE [chapters |-> ChapterUpdateMeasured(chs, row, pulled.duration), wrote |-> TRUE,
          path |-> "ok", duration |-> pulled.duration, tmpLeft |-> pulled.tmpLeft]

\* process_chapter(chapter, is_dry_run), given what the pull returns
process_chapter(chs, row, dry, pulled) ==
    IF dry THEN [chapters |-> chs, wrote |-> FALSE, path |-> "dry", duration |-> 0,
                 tmpLeft |-> FALSE]
    ELSE IF pulled.error
    THEN [chapters |-> chs, wrote |-> FALSE, path |-> pulled.path, duration |-> 0,
          tmpLeft |-> pulled.tmpLeft]
    ELSE [chapters |-> ChapterUpdateMeasured(chs, row, pulled.duration), wrote |-> TRUE,
          path |-> "ok", duration |-> pulled.duration, tmpLeft |-> pulled.tmpLeft]

\* main of the reconciler, lines 157-181
RecBegin(p, dry, adbOk, dbOk) ==
    LET r0 == [IdleRun EXCEPT !.kind = "rec", !.dry = dry, !.snap = Snapshot,
                              !.prev = prev, !.chg = chg,
                              !.pre = [dir |-> TRUE, device |-> adbOk, db |-> dbOk]]
        list == ChaptersJoinBooks(chapters, books)
    IN /\ nRuns < MaxRuns
       /\ nRuns' = nRuns + 1
       /\ Commit(p, IF ~adbOk THEN Finish(r0, "noadb", 0)
                    ELSE IF ~dbOk THEN Finish(r0, "baddb", 1)
                    ELSE IF SelectChaptersFails(schema) THEN Finish(r0, "error", 0)
                    ELSE IF list = <<>> THEN Finish(r0, "ok", 0)
                    ELSE [r0 EXCEPT !.pc = "rec", !.i = 1, !.recList = list])
       /\ UNCHANGED <<local, devDirs, dev, schema, books, chapters, retIds, nEnv>>

RecStart(p) ==
    /\ AllResting
    /\ \E dry \in BOOLEAN, e \in {<<TRUE, TRUE>>, <<FALSE, TRUE>>, <<TRUE, FALSE>>} :
            RecBegin(p, dry, e[1], e[2])

\* process_chapter for the chapter at position i of the query's result
RecChapterStep(p, pull) ==
    LET r == run[p]
        row == r.recList[r.i]
        dd == BookDirName(BookTitleOf(books, row.book))
        f == dev[dd][row.fileName]
        u == process_chapter(chapters, row, r.dry, pull_and_get_duration_in_ms(f, pull))
        r1 == [r EXCEPT !.i = @ + 1,
                        !.attempted = Append(@, Event(u.path, row.id)),
                        !.rec = [called |-> TRUE, id |-> row.id,
                                 pos |-> row.lastPlayedPosition, path |-> u.path,
                                 duration |-> u.duration, wrote |-> u.wrote,
                                 tmpLeft |-> r.rec.tmpLeft \/ u.tmpLeft,
                                 before |-> chapters,
                                 devicePath |-> RecDevicePath(BookTitleOf(books, row.book),
                                                              row.fileName)]]
    IN /\ r.pc = "rec"
       /\ chapters' = u.chapters
       /\ Commit(p, IF r.i = Len(r.recList) THEN Finish(r1, "ok", 0) ELSE r1)
       /\ UNCHANGED <<local, devDirs, dev, schema, books, retIds, nRuns, nEnv>>

\* a dry pass pulls nothing
RecChapter(p) ==
    \E pull \in (IF run[p].dry THEN {"ok"} ELSE PullCases) : RecChapterStep(p, pull)

(* --------------------------- the environment --------------------------- *)
\* between invocations no process exists: the finished ones leave no locals
Forget == run' = [p \in Procs |-> IdleRun]

Change(what, d, n) == [what |-> what, dir |-> d, name |-> n]

\* the user replaces the bytes of a local file: another digest, any duration
LocalEdit ==
    /\ AllResting
    /\ nEnv < MaxEnv
    /\ \E d \in EditDirs, n \in EditNames, dur \in Durations \cup {DurationError} :
        /\ local[d][n].present
        /\ local' = [local EXCEPT ![d][n].digest = IF @ = 1 THEN 2 ELSE 1,
                                  ![d][n].dur = dur]
        /\ chg' = Append(chg, Change("edit", d, n))
    /\ nEnv' = nEnv + 1
    /\ Forget
    /\ UNCHANGED <<devDirs, dev, schema, books, chapters, prev, retIds, nRuns>>

\* a local file is deleted, or overwritten with something that is no audio
LocalLose ==
    /\ AllResting
    /\ nEnv < MaxEnv
    /\ \E d \in EditDirs, n \in EditNames, gone \in BOOLEAN :
        /\ local[d][n].present
        /\ local' = [local EXCEPT ![d][n] = IF gone THEN NoFile
                                            ELSE AudioFile(TextBytes, 8, DurationError)]
        /\ chg' = Append(chg, Change("lose", d, n))
    /\ nEnv' = nEnv + 1
    /\ Forget
    /\ UNCHANGED <<devDirs, dev, schema, books, chapters, prev, retIds, nRuns>>

\* a file on the device is deleted, damaged or cut short
DeviceLose ==
    /\ AllResting
    /\ nEnv < MaxEnv
    /\ \E dd \in DevDirNames, f \in {NoFile, DamagedFile, CutFile} :
        \E n \in EditNames :
        /\ dev[dd][n].present
        /\ dev[dd][n] \notin {DamagedFile, CutFile}
        /\ dev' = [dev EXCEPT ![dd][n] = f]
        /\ chg' = Append(chg, Change("device", dd, n))
    /\ nEnv' = nEnv + 1
    /\ Forget
    /\ UNCHANGED <<local, devDirs, schema, books, chapters, prev, retIds, nRuns>>

\* the player records how far a chapter was played
Playback ==
    /\ AllResting
    /\ nEnv < MaxEnv
    /\ \E i \in 1..Len(chapters), pos \in Positions :
        chapters' = [chapters EXCEPT ![i].lastPlayedPosition = pos,
                                     ![i].lastPlayedTimestamp = nEnv + 1]
    /\ nEnv' = nEnv + 1
    /\ Forget
    /\ UNCHANGED <<local, devDirs, dev, schema, books, prev, chg, retIds, nRuns>>

(* --------------------------- the specification ------------------------- *)
Next ==
    \/ \E p \in SeqProcs : SyncStart(p)
    \/ \E p \in SeqProcs : StoreBook(p)
    \/ \E p \in SeqProcs : FileTransfer(p)
    \/ \E p \in SeqProcs : ChapterUpsert(p)
    \/ \E p \in SeqProcs : RecStart(p)
    \/ \E p \in SeqProcs : RecChapter(p)
    \/ LocalEdit
    \/ LocalLose
    \/ DeviceLose
    \/ Playback

Spec == Init /\ [][Next]_vars

(* --------------------- two interleaved sync invocations ---------------- *)
\* In SpecConc two sync runs share the device and the catalog, and the
\* statements of Book.get_or_create (select, insert, select again after an
\* IntegrityError) are single steps that interleave.
ConcStart(p) ==
    /\ run[p].pc = "idle"
    /\ \E d \in Dirs, dry \in BOOLEAN : SyncBegin(p, d, dry, TRUE, TRUE, TRUE, TRUE)

\* store_book_in_db up to the first select of get_or_create
BookGet(p) ==
    LET r == run[p]
        g == BookSelect(books, r.title)
    IN /\ r.pc = "book"
       /\ IF r.dry
          THEN AfterStoreBook(p, store_book_in_db(books, r.title, r.author, TRUE))
          ELSE IF g # 0
          THEN AfterStoreBook(p, [books |-> books, id |-> books[g].id, created |-> FALSE,
                                  raised |-> FALSE])
          ELSE /\ Commit(p, [r EXCEPT !.pc = "bookInsert"])
               /\ UNCHANGED <<books, retIds>>
       /\ UNCHANGED <<local, devDirs, dev, schema, chapters, nRuns, nEnv>>

\* another invocation is inside its transaction
OtherInTransaction(p) ==
    \E q \in Procs \ {p} : run[q].pc \in {"bookInsert", "bookReget"}

\* the insert of get_or_create: it succeeds, or the store rejects it
\* (IntegrityError), or the database is locked by the other writer
BookInsertStep(p, locked) ==
    LET r == run[p]
        c == BookCreate(books, r.title, r.author)
    IN /\ r.pc = "bookInsert"
       /\ IF locked
          THEN AfterStoreBook(p, [books |-> books, id |-> DummyId, created |-> FALSE,
                                  raised |-> TRUE])
          ELSE IF c.ok
          THEN AfterStoreBook(p, [books |-> c.books, id |-> c.id, created |-> TRUE,
                                  raised |-> FALSE])
          ELSE /\ Commit(p, [r EXCEPT !.pc = "bookReget", !.conflict = TRUE])
               /\ UNCHANGED <<books, retIds>>
       /\ UNCHANGED <<local, devDirs, dev, schema, chapters, nRuns, nEnv>>

BookInsert(p) ==
    \E locked \in (IF OtherInTransaction(p) THEN BOOLEAN ELSE {FALSE}) :
        BookInsertStep(p, locked)

\* the second select of get_or_create, after the IntegrityError
BookReget(p) ==
    LET r == run[p]
        g == BookSelect(books, r.title)
    IN /\ r.pc = "bookReget"
       /\ AfterStoreBook(p, IF g # 0
                            THEN [books |-> books, id |-> books[g].id, created |-> FALSE,
                                  raised |-> FALSE]
                            ELSE [books |-> books, id |-> DummyId, created |-> FALSE,
                                  raised |-> TRUE])
       /\ UNCHANGED <<local, devDirs, dev, schema, chapters, nRuns, nEnv>>

NextConc ==
    \/ \E p \in Procs : ConcStart(p)
    \/ \E p \in Procs : BookGet(p)
    \/ \E p \in Procs : BookInsert(p)
    \/ \E p \in Procs : BookReget(p)
    \/ \E p \in Procs : FileTransfer(p)
    \/ \E p \in Procs : ChapterUpsert(p)

SpecConc == Init /\ [][NextConc]_vars

(* ------------- one start of a sync run on any directory --------------- *)
\* the last path segments tried: every string of 1..MaxSegLen characters over
\* 'a', 'B', '-' and '_'
SegChars == {97, 66, 45, 95}
SegsOfLen(k) == [1..k -> SegChars]
ParseSegs == UNION {SegsOfLen(k) : k \in 1..MaxSegLen}

\* "10.mp3", which as a string sorts behind "1.mp3" and before "2.mp3"
N10 == <<49, 48>> \o Mp3Suffix
\* "b\1.mp3": on a POSIX host a backslash is a character of a file name
NBack == <<98, 92, 49>> \o Mp3Suffix
StartNames == {N1, N2, N10, NBack, NT, NU}

\* the leading bytes a file can have: none, one byte, frame syncs and near misses,
\* ID3 tags and near misses (cut short, lower case), text
StartHeaders ==
    {<<>>, <<255>>, <<255, 224>>, <<255, 223>>, <<254, 251>>, FrameSync,
     <<73, 68>>, ID3, <<73, 68, 51, 4>>, <<105, 100, 51>>, TextBytes}
\* a file whose open() fails
UnreadableFile == [AudioFile(ID3, 5, 100) EXCEPT !.readable = FALSE]
StartFiles == {NoFile, UnreadableFile} \cup {AudioFile(h, 1, 100) : h \in StartHeaders}

\* the directories a single start is tried on: any segment with the listing of
\* "a_x", or "a_x" with any two files as "1.mp3" and "2.mp3"
StartListing(f1, f2) ==
    [n \in StartNames |->
        IF n = N1 THEN f1
        ELSE IF n = N2 THEN f2
        ELSE IF n = N10 THEN AudioFile(FrameSync, 4, 100)
        ELSE IF n = NBack THEN AudioFile(ID3, 5, 100)
        ELSE IF n = NU THEN AudioFile(ID3, 6, 100)
        ELSE AudioFile(TextBytes, 7, DurationError)]

InitStart ==
    /\ \/ \E seg \in ParseSegs :
            local = [d \in {seg} |-> StartListing(AudioFile(ID3, 1, 100), NoFile)]
       \/ \E f1 \in StartFiles, f2 \in StartFiles :
            local = [d \in {DirAX} |-> StartListing(f1, f2)]
    /\ schema = EmptyCatalog.schema
    /\ books = EmptyCatalog.books
    /\ chapters = EmptyCatalog.chapters
    /\ devDirs = EmptyCatalog.devDirs
    /\ dev = EmptyCatalog.dev
    /\ retIds = [t \in Titles |-> {}]
    /\ run = [p \in Procs |-> IdleRun]
    /\ prev = NoPrev
    /\ chg = <<>>
    /\ nRuns = 0
    /\ nEnv = 0

\* main up to store_book_in_db, once, with every precondition met
StartOnce(p) ==
    /\ run[p].pc = "idle"
    /\ \E d \in DOMAIN local, dry \in BOOLEAN :
            SyncBegin(p, d, dry, TRUE, TRUE, TRUE, TRUE)

NextStart == \E p \in SeqProcs : StartOnce(p)

SpecStart == InitStart /\ [][NextStart]_vars

(* ------------------------------- claims -------------------------------- *)
SyncDone(p) == run[p].kind = "sync" /\ run[p].pc = "done"

\* p is a completed non-dry sync run that directly follows a completed non-dry
\* sync run of the same directory
SecondRun(p) ==
    /\ SyncDone(p)
    /\ ~run[p].dry
    /\ run[p].outcome = "ok"
    /\ run[p].prev = [kind |-> "sync", dir |-> run[p].dir, dry |-> FALSE, outcome |-> "ok"]

CatalogAsAtStart(p) ==
    /\ schema = run[p].snap.schema
    /\ books = run[p].snap.books
    /\ chapters = run[p].snap.chapters

OnlyEdited(p, n) ==
    /\ run[p].chg = <<Change("edit", run[p].dir, n)>>
    /\ \E i \in 1..Len(run[p].files) : run[p].files[i] = n

C3_SkipIffDigestsEqual ==
    \A p \in Procs :
        LET c == run[p].copy
        IN c.act \in {"skip", "push"} =>
            /\ (c.act = "skip") <=>
                   (c.local # EmptyDigest /\ c.device # EmptyDigest /\ c.local = c.device)
            /\ (c.local = EmptyDigest) => (c.act = "push" /\ ~c.queried)
            /\ (c.local # EmptyDigest) => c.queried
            /\ (c.local # EmptyDigest /\ c.device = EmptyDigest) => c.act = "push"
            /\ (c.local # EmptyDigest /\ c.device # EmptyDigest /\ c.local # c.device)
                   => c.act = "push"

C3_Witness ==
    \E p \in Procs :
        /\ run[p].copy.act = "skip"
        /\ run[p].copy.local # EmptyDigest
        /\ run[p].copy.local = run[p].copy.device

\* C4: the catalog never holds two Book rows of one title, and every non-dry
\* store_book_in_db returns the id of the row of its title: the id of the row
\* that existed before the call when there was one, and the one id ever
\* returned for that title.
C4_OneBookPerTitle ==
    /\ \A i, j \in 1..Len(books) : books[i].title = books[j].title => i = j
    /\ \A t \in Titles : Cardinality(retIds[t]) <= 1
    /\ \A p \in Procs :
        (run[p].booked /\ ~run[p].dry) =>
            /\ \E i \in 1..Len(books) :
                  books[i].id = run[p].bookId /\ books[i].title = run[p].title
            /\ \A i \in 1..Len(run[p].snap.books) :
                  run[p].snap.books[i].title = run[p].title
                      => run[p].bookId = run[p].snap.books[i].id

C4_Witness ==
    \E p \in Procs :
        /\ run[p].booked /\ ~run[p].dry
        /\ Len(books) = 2
        /\ \E i \in 1..Len(run[p].snap.books) :
              /\ run[p].snap.books[i].title = run[p].title
              /\ run[p].bookId = run[p].snap.books[i].id

\* C5: in every state of sequential sync runs and reconciler passes no two
\* Chapter rows share (book, fileName).
C5_ChapterKeyUnique ==
    \A i, j \in 1..Len(chapters) :
        (chapters[i].book = chapters[j].book /\ chapters[i].fileName = chapters[j].fileName)
            => i = j

C5_Witness ==
    \E p \in Procs :
        /\ run[p].up.existed
        /\ Len(run[p].up.after) = Len(run[p].up.before)
        /\ Len(chapters) >= 2

\* C6: store_chapter_in_db on an existing (book, fileName) changes nothing but
\* that row's playTime, which becomes the supplied value; with an equal playTime
\* it writes nothing.
C6_UpsertTouchesOnlyPlayTime ==
    \A p \in Procs :
        LET u == run[p].up
        IN u.existed =>
            /\ Len(u.after) = Len(u.before)
            /\ \A i \in 1..Len(u.before) :
                  u.after[i] = IF i = u.idx
                               THEN [u.before[i] EXCEPT !.playTime = u.supplied]
                               ELSE u.before[i]
            /\ u.wrote <=> (u.before[u.idx].playTime # u.supplied)
            /\ ~u.wrote => u.after = u.before

C6_Witness ==
    \E p \in Procs :
        LET u == run[p].up
        IN /\ u.existed /\ u.wrote
           /\ u.before[u.idx].lastPlayedPosition > 0
           /\ u.after[u.idx].lastPlayedPosition = u.before[u.idx].lastPlayedPosition
           /\ u.after[u.idx].playTime # u.before[u.idx].playTime

\* C7 as stated: store_chapter_in_db for a (book, fileName) without a row adds
\* exactly one row with the supplied title, fileName and playTime and with
\* lastPlayedPosition, lastPlayedTimestamp and finishedPlaying all zero.
C7_CreatedRowHasZeroProgress ==
    \A p \in Procs :
        LET u == run[p].up
        IN u.created =>
            /\ Len(u.after) = Len(u.before) + 1
            /\ SubSeq(u.after, 1, Len(u.before)) = u.before
            /\ u.after[u.idx].book = u.book
            /\ u.after[u.idx].title = u.title
            /\ u.after[u.idx].fileName = u.fileName
            /\ u.after[u.idx].playTime = u.supplied
            /\ u.after[u.idx].lastPlayedPosition = 0
            /\ u.after[u.idx].lastPlayedTimestamp = 0
            /\ u.after[u.idx].finishedPlaying = 0

\* C8: no sync run and no reconciler pass changes an existing Book row: every
\* row that existed when an invocation started is still there with its id,
\* title and author, also after store_book_in_db was given another author.
C8_BookRowsNeverChange ==
    \A p \in Procs :
        run[p].kind # "none" =>
            /\ Len(books) >= Len(run[p].snap.books)
            /\ \A i \in 1..Len(run[p].snap.books) : books[i] = run[p].snap.books[i]

C8_Witness ==
    \E p \in Procs :
        /\ run[p].booked /\ ~run[p].dry
        /\ \E i \in 1..Len(run[p].snap.books) :
              /\ books[i].title = run[p].title
              /\ books[i].author # run[p].author
              /\ books[i].id = run[p].bookId

C10_DryRunChangesNothing ==
    \A p \in Procs :
        (SyncDone(p) /\ run[p].dry) =>
            /\ devDirs = run[p].snap.devDirs
            /\ dev = run[p].snap.dev
            /\ CatalogAsAtStart(p)
            /\ run[p].pushed = {}
            /\ run[p].outcome = "ok" => run[p].planned = Len(run[p].files)

\* the names of the events of kind evs in the record of p, in order
LogNames(p, evs) ==
    LET s == SelectSeq(run[p].log, LAMBDA e : e.ev \in evs)
    IN [i \in 1..Len(s) |-> s[i].name]

Range(s) == {s[i] : i \in 1..Len(s)}

\* C11 as stated: a dry run compares the digests and plans the transfer of a
\* file exactly when a real run started in the same state would push it.
C11_DryRunPlansWhatRealRunPushes ==
    \A p \in Procs :
        (run[p].kind = "sync" /\ run[p].dry /\ run[p].pc = "chap") =>
            LET n == run[p].files[run[p].i]
                l == calculate_md5(local[run[p].dir][n], FALSE)
                m == get_device_md5(dev[BookDirName(run[p].title)][n], FALSE)
            IN (run[p].copy.act = "dry") <=> ~CopySkips(l, m)

\* C12: when a push fails in a non-dry run the process exits with a non-zero
\* status, the book and the chapters upserted before stay as they were written,
\* and neither the file whose push failed nor a later one is upserted.
C12_PushFailureKeepsEarlierUpserts ==
    \A p \in Procs : \A n \in Names :
        (SyncDone(p) /\ ~run[p].dry /\ n \in Range(LogNames(p, {"pushfail"}))) =>
            LET r == run[p]
            IN /\ r.exit # 0
               /\ r.files[r.i] = n
               /\ LogNames(p, {"upsert"}) = SubSeq(r.files, 1, r.i - 1)
               /\ chapters = (IF r.up.called THEN r.up.after ELSE r.snap.chapters)
               /\ BookSelect(books, r.title) # 0
               /\ books[BookSelect(books, r.title)].id = r.bookId
               /\ \A j \in 1..(r.i - 1) :
                      ChapterSelect(chapters, r.bookId, r.files[j]) # 0
               /\ \A j \in r.i..Len(r.files) :
                      LET g == ChapterSelect(chapters, r.bookId, r.files[j])
                          h == ChapterSelect(r.snap.chapters, r.bookId, r.files[j])
                      IN /\ (g = 0) <=> (h = 0)
                         /\ g # 0 => chapters[g] = r.snap.chapters[h]

C12_Witness ==
    \E p \in Procs :
        /\ SyncDone(p) /\ ~run[p].dry
        /\ run[p].outcome = "pushfail"
        /\ run[p].i = 2
        /\ run[p].up.created
        /\ run[p].exit = 1

\* C13 as stated: a validated file whose duration cannot be computed does not
\* end a non-dry run: the chapters upserted before it stay as they are and
\* every later file whose duration can be computed is still upserted.
C13_DurationFailureDoesNotAbort ==
    \A p \in Procs :
        (SyncDone(p) /\ ~run[p].dry /\ run[p].booked
            /\ LogNames(p, {"pushfail"}) = <<>>) =>
            LET r == run[p]
            IN /\ \A j \in 1..Len(r.files) :
                      get_mp3_duration_in_ms(local[r.dir][r.files[j]]) # DurationError
                          => r.files[j] \in Range(LogNames(p, {"upsert"}))
               /\ r.up.called => chapters = r.up.after

\* C14: in a non-dry run the upsert of a file follows its transfer step in the
\* same iteration whenever that step pushed the file or skipped it: in the
\* record of the run the next entry is the upsert of the same file, or the
\* run stands right before that upsert.
C14_UpsertFollowsTransferOrSkip ==
    \A p \in Procs :
        (run[p].kind = "sync" /\ ~run[p].dry) =>
            LET r == run[p]
            IN \A k \in 1..Len(r.log) :
                r.log[k].ev \in {"skip", "push"} =>
                    IF k = Len(r.log)
                    THEN /\ r.pc = "chap"
                         /\ r.files[r.i] = r.log[k].name
                         /\ ENABLED ChapterUpsert(p)
                    ELSE r.log[k + 1] = Event("upsert", r.log[k].name)

C14_Witness ==
    \E p \in Procs :
        /\ run[p].kind = "sync" /\ ~run[p].dry
        /\ \E k \in 1..(Len(run[p].log) - 1) :
            /\ run[p].log[k].ev = "skip"
            /\ run[p].log[k + 1] = Event("upsert", run[p].log[k].name)
        /\ run[p].up.called /\ run[p].up.existed /\ ~run[p].up.wrote

TransferEvents == {"plan", "skip", "push", "pushfail"}

\* C15: a sync run takes the validated files in ascending lexicographic order,
\* one at a time: the transfer steps taken are those of a prefix of the sorted
\* list, each upsert directly follows the transfer step of its own file, and
\* (in a run that writes, i.e. a non-dry one) the Chapter row of every earlier
\* file is in the catalog when the transfer of a file is decided.
C15_SortedOneAtATime ==
    \A p \in Procs :
        (run[p].kind = "sync" /\ run[p].pc \in {"file", "chap", "done"}
            /\ run[p].booked) =>
            LET r == run[p]
                t == LogNames(p, TransferEvents)
            IN /\ \A j \in 1..(Len(r.files) - 1) : StrLess(r.files[j], r.files[j + 1])
               /\ Len(t) <= Len(r.files)
               /\ t = SubSeq(r.files, 1, Len(t))
               /\ \A k \in 1..Len(r.log) :
                    IF r.log[k].ev \in TransferEvents
                    THEN k = 1 \/ r.log[k - 1].ev = "upsert"
                    ELSE k > 1 /\ r.log[k - 1].ev \in TransferEvents
                               /\ r.log[k - 1].name = r.log[k].name
               /\ ~r.dry =>
                    \A j \in 1..Len(r.files) :
                        (j <= Len(t) \/ (r.pc = "file" /\ r.i = j)) =>
                            \A h \in 1..(j - 1) :
                                /\ r.files[h] \in Range(LogNames(p, {"upsert"}))
                                /\ ChapterSelect(chapters, r.bookId, r.files[h]) # 0

C15_Witness ==
    \E p \in Procs :
        /\ run[p].kind = "sync" /\ ~run[p].dry
        /\ run[p].pc = "chap" /\ run[p].i = 2
        /\ ChapterSelect(run[p].snap.chapters, run[p].bookId, run[p].files[1]) = 0
        /\ ChapterSelect(chapters, run[p].bookId, run[p].files[1]) # 0
        /\ LogNames(p, TransferEvents) = run[p].files

\* the Chapter row a completed upsert of file n leaves, given the row it found
\* (none when h = 0): only playTime is taken from the file
UpsertedRowIsWhole(p, row, n, h) ==
    LET r == run[p]
        d == get_mp3_duration_in_ms(local[r.dir][n])
    IN IF h # 0 THEN row = [r.snap.chapters[h] EXCEPT !.playTime = d]
       ELSE /\ row.book = r.bookId
            /\ row.fileName = n
            /\ row.title = ChapterTitle(n)
            /\ row.playTime = d
            /\ row.lastPlayedPosition = 0
            /\ row.lastPlayedTimestamp = 0

\* the catalog is the one the run started with plus the whole upserts of the
\* first k validated files
CatalogAfterPrefix(p, k) ==
    LET r == run[p]
        old == Len(r.snap.chapters)
        done == {r.files[j] : j \in 1..k}
    IN /\ Len(chapters) >= old
       /\ \A j \in 1..k : ChapterSelect(chapters, r.bookId, r.files[j]) # 0
       /\ \A g \in 1..Len(chapters) :
            LET row == chapters[g]
                mine == row.book = r.bookId /\ row.fileName \in done
            IN IF g <= old
               THEN IF mine THEN UpsertedRowIsWhole(p, row, row.fileName, g)
                    ELSE row = r.snap.chapters[g]
               ELSE /\ mine
                    /\ ChapterSelect(r.snap.chapters, r.bookId, row.fileName) = 0
                    /\ UpsertedRowIsWhole(p, row, row.fileName, 0)
                    /\ \A h \in 1..Len(chapters) :
                           (chapters[h].book = row.book
                               /\ chapters[h].fileName = row.fileName) => h = g

\* C16: wherever a non-dry run stops, the catalog holds the Chapter upserts of a
\* prefix of the sorted validated files and nothing else of the run, every
\* Chapter row is whole, and the books table is the one the run found or that
\* one with the whole Book row of the run.
C16_StoppedRunLeavesPrefix ==
    \A p \in Procs :
        (run[p].kind = "sync" /\ ~run[p].dry /\ run[p].pc # "idle") =>
            LET r == run[p]
            IN /\ \/ books = r.snap.books
                  \/ /\ Len(books) = Len(r.snap.books) + 1
                     /\ SubSeq(books, 1, Len(r.snap.books)) = r.snap.books
                     /\ books[Len(books)] =
                            [id |-> r.bookId, title |-> r.title, author |-> r.author]
               /\ \E k \in 0..Len(r.files) : CatalogAfterPrefix(p, k)

C16_Witness ==
    \E p \in Procs :
        /\ SyncDone(p) /\ ~run[p].dry
        /\ run[p].outcome = "error"
        /\ Len(run[p].files) = 2 /\ run[p].i = 2
        /\ Len(books) = Len(run[p].snap.books) + 1
        /\ Len(chapters) = Len(run[p].snap.chapters) + 1
        /\ CatalogAfterPrefix(p, 1)
        /\ ~CatalogAfterPrefix(p, 0)

\* the Chapter row the last process_chapter of pass p was called for
RecRow(p) ==
    chapters[CHOOSE i \in 1..Len(chapters) : chapters[i].id = run[p].rec.id]

RecWrote(p) == run[p].kind = "rec" /\ run[p].rec.called /\ run[p].rec.wrote

\* C17 as stated: after the reconciler measured duration d for a chapter with
\* stored position p, finishedPlaying is 1 exactly when p > 0 and
\* 100 * p >= 95 * d.
C17_FinishedIffPositionReached ==
    \A p \in Procs :
        RecWrote(p) =>
            LET pos == run[p].rec.pos
                d == run[p].rec.duration
            IN RecRow(p).finishedPlaying
                    = (IF pos > 0 /\ 100 * pos >= 95 * d THEN 1 ELSE 0)

\* C17 amended: ... exactly when p > 0, d > 0 and 100 * p >= 95 * d; so
\* (d, p) = (600000, 579000) gives 1, (600000, 500000) gives 0, (0, 0) gives 0.
C17_FinishedIffPositionReachedOfPositiveDuration ==
    /\ \A p \in Procs :
        RecWrote(p) =>
            LET pos == run[p].rec.pos
                d == run[p].rec.duration
            IN RecRow(p).finishedPlaying
                    = (IF pos > 0 /\ d > 0 /\ 100 * pos >= 95 * d THEN 1 ELSE 0)
    /\ FinishedFlag(579000, 600000) = 1
    /\ FinishedFlag(500000, 600000) = 0
    /\ FinishedFlag(0, 0) = 0

C17_Witness ==
    \E p \in Procs :
        /\ RecWrote(p)
        /\ run[p].rec.pos = 95 /\ run[p].rec.duration = 100
        /\ RecRow(p).finishedPlaying = 1

\* C18: in a non-dry pass process_chapter writes playTime and finishedPlaying
\* whenever a duration was obtained, also when neither value changes, and
\* leaves the row (and the whole catalog) alone when the pull or the decoding
\* failed.
C18_WritesBothOrNothing ==
    \A p \in Procs :
        (run[p].kind = "rec" /\ ~run[p].dry /\ run[p].rec.called) =>
            LET c == run[p].rec
            IN IF c.path = "ok"
               THEN /\ c.wrote
                    /\ Len(chapters) = Len(c.before)
                    /\ \A i \in 1..Len(chapters) :
                        chapters[i] =
                            IF c.before[i].id = c.id
                            THEN [c.before[i] EXCEPT
                                    !.playTime = c.duration,
                                    !.finishedPlaying =
                                        IF c.pos > 0 /\ c.duration > 0
                                            /\ 100 * c.pos >= 95 * c.duration
                                        THEN 1 ELSE 0]
                            ELSE c.before[i]
               ELSE /\ c.path \in {"pullfail", "timeout", "decode"}
                    /\ ~c.wrote
                    /\ chapters = c.before

C18_Witness ==
    \E p \in Procs :
        /\ run[p].kind = "rec" /\ ~run[p].dry /\ run[p].rec.called
        /\ run[p].rec.path = "ok"
        /\ run[p].rec.wrote
        /\ chapters = run[p].rec.before

\* C19 as stated: a reconciler pass that got past its connection checks calls
\* process_chapter for every Chapter row of the catalog exactly once, whatever
\* happens to single chapters.
C19_EveryChapterAttemptedOnce ==
    \A p \in Procs :
        (run[p].kind = "rec" /\ run[p].pc = "done"
            /\ run[p].outcome \notin {"noadb", "baddb"}) =>
            LET a == run[p].attempted
                chs == run[p].snap.chapters
            IN /\ Len(a) = Len(chs)
               /\ \A i \in 1..Len(chs) : a[i].name = chs[i].id

WorldAsAtStart(p) ==
    /\ devDirs = run[p].snap.devDirs
    /\ dev = run[p].snap.dev
    /\ CatalogAsAtStart(p)

\* a precondition of sync run p failed: no directory, a name that is no
\* identity, no device, no valid catalog file
SyncPreconditionFailed(p) ==
    \/ ~run[p].pre.dir
    \/ ~run[p].pre.device
    \/ ~run[p].pre.db
    \/ ~parse_directory_name(run[p].dir).ok

\* C21: a sync run one of whose preconditions fails stops before it changes
\* anything: no device directory, no push, no table, no Book or Chapter row.
C21_FailedPreconditionChangesNothing ==
    \A p \in Procs :
        (run[p].kind = "sync" /\ SyncPreconditionFailed(p)) =>
            /\ run[p].pc = "done"
            /\ run[p].log = <<>>
            /\ ~run[p].booked
            /\ WorldAsAtStart(p)

C21_Witness ==
    \E p \in Procs :
        /\ run[p].kind = "sync" /\ ~run[p].dry
        /\ ~run[p].pre.device
        /\ parse_directory_name(run[p].dir).ok
        /\ validate_mp3_files(local[run[p].dir]) # <<>>
        /\ ~schema.books
        /\ WorldAsAtStart(p)

\* C22 as stated: a sync run or a reconciler pass one of whose preconditions
\* fails (bad directory or directory name, unreachable device, invalid catalog
\* file) ends with a non-zero exit status, and one that runs to its end, files
\* skipped with a warning or not, ends with exit status zero.
C22_ExitStatusTellsFailedPrecondition ==
    \A p \in Procs :
        run[p].pc = "done" =>
            /\ (run[p].kind = "sync" /\ SyncPreconditionFailed(p)) => run[p].exit # 0
            /\ (run[p].kind = "rec" /\ (~run[p].pre.device \/ ~run[p].pre.db))
                    => run[p].exit # 0
            /\ run[p].outcome = "ok" => run[p].exit = 0

\* C23 as stated: a directory without a valid audio file is nothing to do and no
\* failure: the sync run ends with exit status zero and has changed nothing.
C23_NoValidFileIsNoFailure ==
    \A p \in Procs :
        (run[p].kind = "sync" /\ run[p].pc = "done" /\ ~SyncPreconditionFailed(p)
            /\ validate_mp3_files(local[run[p].dir]) = <<>>) =>
            /\ run[p].exit = 0
            /\ WorldAsAtStart(p)

\* what word-wise capitalisation makes of one part of a directory name, letter
\* by letter: '-' becomes ' ', a letter that starts a word is upper case, every
\* other letter is lower case
CapitalizedPart(part) ==
    [i \in 1..Len(part) |->
        IF part[i] = 45 THEN 32
        ELSE IF i = 1 \/ part[i - 1] = 45 THEN UpperChar(part[i])
        ELSE LowerChar(part[i])]

Underscores(seg) == {i \in 1..Len(seg) : seg[i] = 95}

\* C24: parse_directory_name is a function of the last path segment; a segment
\* with exactly one '_' yields (title, author), the two parts split on '-', every
\* word capitalized, the words joined by one space; every other segment fails
\* with the error and yields nothing.
C24_ParseDirectoryName ==
    \A p \in Procs :
        run[p].kind = "sync" =>
            LET seg == run[p].dir
                id == parse_directory_name(seg)
                us == Underscores(seg)
            IN IF Cardinality(us) = 1
               THEN LET k == CHOOSE i \in us : TRUE
                    IN /\ id.ok
                       /\ id.title = CapitalizedPart(SubSeq(seg, 1, k - 1))
                       /\ id.author = CapitalizedPart(SubSeq(seg, k + 1, Len(seg)))
                       /\ run[p].outcome # "error"
                       /\ run[p].pc = "book" =>
                            (run[p].title = id.title /\ run[p].author = id.author)
               ELSE /\ ~id.ok
                    /\ run[p].pc = "done" /\ run[p].outcome = "error"
                    /\ run[p].title = <<>> /\ run[p].author = <<>>

\* "aB-a_B" is parsed into the title "Ab A" and the author "B"
C24_Witness ==
    \E p \in Procs :
        /\ run[p].kind = "sync" /\ run[p].pc = "book"
        /\ run[p].dir = <<97, 66, 45, 97, 95, 66>>
        /\ run[p].title = <<65, 98, 32, 65>>
        /\ run[p].author = <<66>>

\* a directory entry that validation has to accept, spelled out byte by byte
AcceptedEntry(name, f) ==
    /\ f.present /\ f.readable
    /\ EndsWith(name, Mp3Suffix)
    /\ \/ Len(f.hdr) >= 3 /\ f.hdr[1] = 73 /\ f.hdr[2] = 68 /\ f.hdr[3] = 51
       \/ Len(f.hdr) >= 2 /\ f.hdr[1] = 255 /\ f.hdr[2] >= 224

\* C25: validate_mp3_files raises for no candidate, unreadable or malformed; it
\* accepts a file that begins with 'ID3' or with 0xFF and a byte whose top three
\* bits are set, rejects every other one (a file of fewer than two bytes too),
\* and returns exactly the accepted names in ascending lexicographic order.
C25_ValidateMp3Files ==
    \A p \in Procs :
        (run[p].kind = "sync" /\ parse_directory_name(run[p].dir).ok) =>
            LET listing == local[run[p].dir]
                files == validate_mp3_files(listing)
            IN /\ \A n \in DOMAIN listing :
                    (n \in Range(files)) <=> AcceptedEntry(n, listing[n])
               /\ \A i \in 1..Len(files), j \in 1..Len(files) :
                    i < j => StrLess(files[i], files[j])
               /\ run[p].outcome # "error"
               /\ run[p].pc = "book" => run[p].files = files
               /\ files = <<>> <=> run[p].outcome = "nofiles"

\* an unreadable "1.mp3" is rejected; "2.mp3" with the frame sync 0xFF 0xE0 is
\* accepted and sorts behind "10.mp3" and before "b\1.mp3"
C25_Witness ==
    \E p \in Procs :
        /\ run[p].kind = "sync" /\ run[p].pc = "book"
        /\ local[run[p].dir][N1] = UnreadableFile
        /\ local[run[p].dir][N2].hdr = <<255, 224>>
        /\ run[p].files = <<N10, N2, NBack>>

LowerString(s) == [i \in 1..Len(s) |-> LowerChar(s[i])]

\* C26 as stated: the extension is matched without regard to case: an entry
\* whose name ends in ".MP3" or ".Mp3" and whose leading bytes pass the header
\* test is accepted like one that ends in ".mp3".
C26_ExtensionMatchedIgnoringCase ==
    \A p \in Procs :
        (run[p].kind = "sync" /\ run[p].pc = "book") =>
            \A n \in DOMAIN local[run[p].dir] :
                LET f == local[run[p].dir][n]
                IN (/\ f.present /\ f.readable
                    /\ EndsWith(LowerString(n), Mp3Suffix)
                    /\ HeaderIsMp3(f.hdr)) => n \in Range(run[p].files)

\* every shape the two tables of a catalog file can have
Schemas == [books : BOOLEAN, chapters : {"none", "v1", "v2"}]

\* C27: the schema bootstrap is check-then-create and idempotent: with both
\* tables present it changes nothing, a table that exists is never dropped or
\* created anew, and every Book and Chapter row of before the bootstrap is there
\* unchanged after it, playback progress included.
C27_BootstrapKeepsTablesAndRows ==
    /\ \A sch \in Schemas :
        LET after == Bootstrap(sch)
        IN /\ Bootstrap(after) = after
           /\ (sch.books /\ sch.chapters # "none") => after = sch
           /\ sch.books => after.books
           /\ sch.chapters # "none" => after.chapters = sch.chapters
    /\ \A p \in Procs :
        (run[p].kind = "sync" /\ run[p].pc = "book") =>
            /\ run[p].snap.schema.books => schema.books
            /\ run[p].snap.schema.chapters # "none" =>
                    schema.chapters = run[p].snap.schema.chapters
            /\ books = run[p].snap.books
            /\ chapters = run[p].snap.chapters

\* the second bootstrap in a row on a catalog with played chapters
C27_Witness ==
    \E p \in Procs :
        /\ run[p].kind = "sync" /\ run[p].pc = "book"
        /\ run[p].prev.kind = "sync"
        /\ run[p].snap.schema = [books |-> TRUE, chapters |-> "v2"]
        /\ schema = run[p].snap.schema
        /\ \E i \in 1..Len(chapters) : chapters[i].lastPlayedPosition > 0
        /\ chapters = run[p].snap.chapters

\* C28 as stated: a catalog whose tables a sync run created has the
\* finishedPlaying column on chapters: every chapter row carries the field and
\* the reconciler's query, which names it, can be run.
C28_CreatedCatalogHasFinishedPlaying ==
    \A p \in Procs :
        (run[p].kind = "sync" /\ ~run[p].snap.schema.books /\ schema.books) =>
            /\ schema.chapters = "v2"
            /\ \A i \in 1..Len(chapters) : chapters[i].finishedPlaying # NoColumn
            /\ ~SelectChaptersFails(schema)

\* C29 as stated: the store itself keeps (bookId, fileName) unique on chapters:
\* the insert of a second row with the key of an existing row is rejected.
C29_StoreRejectsSecondRowOfKey ==
    \A i \in 1..Len(chapters) :
        ~ChapterInsertAllowed(chapters, chapters[i].book, chapters[i].fileName)

\* every chapter row is kept by the step: same place, same id, book and file name
ChapterRowsKept ==
    /\ Len(chapters') >= Len(chapters)
    /\ \A i \in 1..Len(chapters) :
        /\ chapters'[i].id = chapters[i].id
        /\ chapters'[i].book = chapters[i].book
        /\ chapters'[i].fileName = chapters[i].fileName

\* C30: no step of a sync run or of a reconciler pass deletes a Chapter row: the
\* rows only become more, whatever happened to the files in the local directory
\* or on the device.
C30_NoChapterRowDeleted == [][ChapterRowsKept]_vars

\* a reconciler pass has failed to pull a file that was deleted on the device,
\* and the chapter's row is there
C30_Witness ==
    \E p \in Procs :
        /\ run[p].kind = "rec" /\ ~run[p].dry
        /\ run[p].chg # <<>> /\ run[p].chg[1].what = "device"
        /\ run[p].rec.called /\ run[p].rec.path = "pullfail"
        /\ \E i \in 1..Len(chapters) :
            /\ chapters[i].id = run[p].rec.id
            /\ ~dev[BookDirName(BookTitleOf(books, chapters[i].book))][chapters[i].fileName].present
        /\ Len(chapters) >= Len(run[p].snap.chapters)

\* C31: a reconciler pass with --dry-run pulls no file and updates no row: every
\* chapter it comes to is only reported, and the catalog stays as the pass
\* found it.
C31_DryPassReadsOnly ==
    \A p \in Procs :
        (run[p].kind = "rec" /\ run[p].dry) =>
            /\ schema = run[p].snap.schema
            /\ books = run[p].snap.books
            /\ chapters = run[p].snap.chapters
            /\ dev = run[p].snap.dev
            /\ \A k \in 1..Len(run[p].attempted) : run[p].attempted[k].ev = "dry"
            /\ ~run[p].rec.wrote
            /\ ~run[p].rec.tmpLeft

\* a dry pass has gone over two chapters, one of which a real pass would mark
\* as finished
C31_Witness ==
    \E p \in Procs :
        /\ run[p].kind = "rec" /\ run[p].dry /\ run[p].pc = "done"
        /\ Len(run[p].attempted) = 2
        /\ \E i \in 1..Len(chapters) :
            /\ chapters[i].finishedPlaying = 0
            /\ FinishedFlag(chapters[i].lastPlayedPosition, chapters[i].playTime) = 1

HasBook(bks, title) == \E i \in 1..Len(bks) : bks[i].title = title

\* C32 as stated: a Book row comes with a successful ingestion: after a non-dry
\* sync run on a directory whose title was not in the catalog, the Book row of
\* the title exists only if the run completed, and a run that a transfer failure
\* ended leaves no Book row without chapters.
C32_BookRowOnlyAfterSuccess ==
    \A p \in Procs :
        (/\ SyncDone(p) /\ ~run[p].dry
         /\ parse_directory_name(run[p].dir).ok
         /\ ~HasBook(run[p].snap.books, parse_directory_name(run[p].dir).title)) =>
            /\ HasBook(books, parse_directory_name(run[p].dir).title)
                    => run[p].outcome = "ok"
            /\ run[p].outcome = "pushfail" =>
                    \A i \in 1..Len(books) :
                        \E j \in 1..Len(chapters) : chapters[j].book = books[i].id

\* the flag of a row agrees with the row's stored values
FlagDerived(row) ==
    row.finishedPlaying = 1 =>
        /\ row.lastPlayedPosition > 0
        /\ 100 * row.lastPlayedPosition >= 95 * row.playTime

\* C33 as stated: finishedPlaying is derived from the stored values: a chapter
\* whose flag is 1 has lastPlayedPosition > 0 and lastPlayedPosition >= 0.95 *
\* playTime, and a sync run that changes the playTime of a chapter whose flag
\* agreed with its values leaves a flag that agrees with the new playTime.
C33_FinishedFlagFollowsStoredValues ==
    \A p \in Procs :
        (/\ run[p].kind = "sync" /\ run[p].up.called
         /\ run[p].up.wrote /\ ~run[p].up.created) =>
            LET i == run[p].up.idx
            IN FlagDerived(run[p].up.before[i]) => FlagDerived(run[p].up.after[i])

\* C34 as stated: for every file a sync run ingests, the device path the
\* reconciler pulls the chapter from is the device path the sync run pushes the
\* file to.
C34_ReconcilerPullsWhereSyncPushed ==
    \A p \in Procs :
        (run[p].kind = "sync" /\ run[p].pc = "book") =>
            \A k \in 1..Len(run[p].files) :
                LET n == run[p].files[k]
                IN SyncDevicePath(run[p].deviceDir, n) = RecDevicePath(run[p].title, n)

\* the step is one of reconciler pass p
RecStepOf(p) == run'[p].kind = "rec" /\ run'[p] # run[p]

\* the step leaves everything but playTime and finishedPlaying of the chapter
\* whose duration pass p has just obtained
RecFrame(p) ==
    /\ UNCHANGED <<local, devDirs, dev, schema, books>>
    /\ Len(chapters') = Len(chapters)
    /\ \A i \in 1..Len(chapters) :
        /\ chapters'[i].id = chapters[i].id
        /\ chapters'[i].book = chapters[i].book
        /\ chapters'[i].title = chapters[i].title
        /\ chapters'[i].fileName = chapters[i].fileName
        /\ chapters'[i].lastPlayedPosition = chapters[i].lastPlayedPosition
        /\ chapters'[i].lastPlayedTimestamp = chapters[i].lastPlayedTimestamp
        /\ (\/ chapters'[i].playTime # chapters[i].playTime
            \/ chapters'[i].finishedPlaying # chapters[i].finishedPlaying) =>
                /\ run'[p].rec.path = "ok"
                /\ run'[p].rec.id = chapters[i].id
                /\ chapters'[i].playTime = run'[p].rec.duration

\* C35: a reconciler pass changes nothing but playTime and finishedPlaying of
\* the chapters whose duration it obtained: no Book or Chapter row comes or
\* goes, every Book row and the other fields of every Chapter row stay, nothing
\* is pushed to the device and no local file is touched.
C35_ReconcilerFrame == [][\A p \in Procs : RecStepOf(p) => RecFrame(p)]_vars

\* a pass has marked a played chapter as finished and left its position alone
C35_Witness ==
    \E p \in Procs :
        /\ run[p].kind = "rec" /\ run[p].pc = "done" /\ ~run[p].dry
        /\ books = run[p].snap.books /\ dev = run[p].snap.dev
        /\ \E i \in 1..Len(chapters) :
            /\ chapters[i].finishedPlaying = 1
            /\ run[p].snap.chapters[i].finishedPlaying = 0
            /\ chapters[i].lastPlayedPosition = run[p].snap.chapters[i].lastPlayedPosition
            /\ chapters[i].lastPlayedPosition > 0

\* the rows of chapters for file n of book bookId
RowsOf(bookId, n) ==
    {i \in 1..Len(chapters) : chapters[i].book = bookId /\ chapters[i].fileName = n}

\* C36: when a non-dry sync run of directory D has completed without a transfer
\* or duration failure, every validated file of D has exactly one Chapter row
\* under the book of D, with the duration measured from the local file as its
\* playTime, and its copy on the device has the digest of the local file.
C36_CompletedRunCataloguesEveryFile ==
    \A p \in Procs :
        (SyncDone(p) /\ ~run[p].dry /\ run[p].outcome = "ok") =>
            /\ run[p].files = validate_mp3_files(local[run[p].dir])
            /\ \E b \in 1..Len(books) :
                /\ books[b].title = parse_directory_name(run[p].dir).title
                /\ books[b].id = run[p].bookId
            /\ \A n \in Range(run[p].files) :
                LET f == local[run[p].dir][n]
                    d == dev[BookDirName(parse_directory_name(run[p].dir).title)][n]
                IN /\ Cardinality(RowsOf(run[p].bookId, n)) = 1
                   /\ \A i \in RowsOf(run[p].bookId, n) : chapters[i].playTime = f.dur
                   /\ d.present
                   /\ d.digest = f.digest

\* a completed run has pushed a file and has taken the new duration of a file
\* whose row was there before
C36_Witness ==
    \E p \in Procs :
        /\ SyncDone(p) /\ ~run[p].dry /\ run[p].outcome = "ok"
        /\ run[p].pushed # {}
        /\ \E n \in Range(run[p].files) :
            \E i \in 1..Len(run[p].snap.chapters) :
                /\ run[p].snap.chapters[i].book = run[p].bookId
                /\ run[p].snap.chapters[i].fileName = n
                /\ run[p].snap.chapters[i].playTime # local[run[p].dir][n].dur

\* C37 as stated: the device directory tells the title: no directory name that
\* parses to another title is given the device directory of the book that a
\* sync run has started on.
C37_DeviceDirectoryTellsTitle ==
    \A p \in Procs :
        (run[p].kind = "sync" /\ run[p].pc = "book") =>
            \A seg \in ParseSegs :
                LET id == parse_directory_name(seg)
                IN (id.ok /\ id.title # run[p].title) =>
                        create_device_directory(id.title) # run[p].deviceDir

============================================================================
